---- MODULE Spec2Model ----
(***************************************************************************)
(* Model of the Selenium/pytest hotel-planisphere framework:               *)
(*   src/src/tests/conftest.py   fixtures and pytest_runtest_makereport    *)
(*   src/src/core/logger.py      buffered logger                           *)
(*   src/src/core/video_recorder.py  capture thread, stop()                *)
(*   src/src/core/utils.py       slugify, test_artifact_paths              *)
(* One pytest process runs the collected items one after the other; each   *)
(* item goes through setup (fixtures), call and teardown (finalizers), and *)
(* pytest_runtest_makereport handles the report of each phase.             *)
(***************************************************************************)
EXTENDS Integers, Sequences, FiniteSets, TLC

\* ------------------------------------------------------------------ bounds
\* items (browser kinds times CSV rows) of one run
MaxItems == 3
\* frames a capture thread writes before it only waits for the stop signal
MaxFrames == 2
\* command-line arguments enumerated for the browser resolution
MaxArgs == 2

\* ------------------------------------------------------- program constants
\* slugify(s, max_len=120)
max_len == 120

\* ---------------------------------------------------------------- strings
\* A string is a sequence of one-character strings.
UpperChars == <<"A","B","C","D","E","F","G","H","I","J","K","L","M",
                "N","O","P","Q","R","S","T","U","V","W","X","Y","Z">>
LowerChars == <<"a","b","c","d","e","f","g","h","i","j","k","l","m",
                "n","o","p","q","r","s","t","u","v","w","x","y","z">>
DigitChars == <<"0","1","2","3","4","5","6","7","8","9">>

Range(s) == {s[i] : i \in DOMAIN s}

\* str.lower() on one character
LowerChar(c) ==
    IF c \in Range(UpperChars)
    THEN LowerChars[CHOOSE i \in DOMAIN UpperChars : UpperChars[i] = c]
    ELSE c

\* the character class [a-z0-9._-] of the regular expression in slugify
SafeChar(c) == c \in Range(LowerChars) \cup Range(DigitChars) \cup {".", "_", "-"}

SpaceChars == {" ", "\t", "\n"}

\* s without its leading characters that are in D
LStrip(s, D) ==
    LET rest == {i \in DOMAIN s : s[i] \notin D}
    IN  IF rest = {} THEN <<>>
        ELSE SubSeq(s, CHOOSE i \in rest : \A k \in rest : i <= k, Len(s))

\* s without its trailing characters that are in D
RStrip(s, D) ==
    LET rest == {i \in DOMAIN s : s[i] \notin D}
    IN  IF rest = {} THEN <<>>
        ELSE SubSeq(s, 1, CHOOSE i \in rest : \A k \in rest : i >= k)

\* s.strip().lower()
StripLower(s) ==
    LET t == RStrip(LStrip(s, SpaceChars), SpaceChars)
    IN  [i \in DOMAIN t |-> LowerChar(t[i])]

\* .replace(os.sep, "_").replace("/", "_").replace("\\", "_")
ReplaceSeps(s) == [i \in DOMAIN s |-> IF s[i] \in {"/", "\\"} THEN "_" ELSE s[i]]

\* .replace("::", "__"), left to right, non-overlapping: in a run of colons
\* the pairs counted from the start of the run are replaced, an odd last
\* colon stays
ReplaceColons(s) ==
    LET First(i) == CHOOSE a \in 1..i :
                        /\ \A k \in a..i : s[k] = ":"
                        /\ a = 1 \/ s[a - 1] # ":"
        Last_(i) == CHOOSE e \in i..Len(s) :
                        /\ \A k \in i..e : s[k] = ":"
                        /\ e = Len(s) \/ s[e + 1] # ":"
        Paired(i) == (i - First(i)) < 2 * ((Last_(i) - First(i) + 1) \div 2)
    IN  [i \in DOMAIN s |-> IF s[i] = ":" /\ Paired(i) THEN "_" ELSE s[i]]

\* re.sub(r"[^a-z0-9._-]+", "_", s): every maximal run of other characters
\* becomes one underscore
SubUnsafe(s) ==
    LET m == [i \in DOMAIN s |->
                IF SafeChar(s[i]) THEN s[i]
                ELSE IF i = 1 \/ SafeChar(s[i - 1]) THEN "_" ELSE ""]
    IN  SelectSeq(m, LAMBDA c : c # "")

\* re.sub(r"_+", "_", s)
CollapseUnderscores(s) ==
    LET m == [i \in DOMAIN s |->
                IF s[i] = "_" /\ i > 1 /\ s[i - 1] = "_" THEN "" ELSE s[i]]
    IN  SelectSeq(m, LAMBDA c : c # "")

\* .strip("_")
StripUnderscores(s) == RStrip(LStrip(s, {"_"}), {"_"})

Truncate_never(s, n) == s

\* s[:max_len] if len(s) > max_len else s
Truncate(s, n) == IF Len(s) > n THEN SubSeq(s, 1, n) ELSE s

\* a slugify that cuts the name at the parametrization bracket
slugify_cut_param(s) ==
    LET t == StripLower(s)
        k == IF \E i \in DOMAIN t : t[i] = "["
             THEN (CHOOSE i \in DOMAIN t : t[i] = "[" /\ \A j \in 1..(i-1) : t[j] # "[") - 1
             ELSE Len(t)
    IN  StripUnderscores(CollapseUnderscores(SubUnsafe(ReplaceColons(ReplaceSeps(
            SubSeq(t, 1, k))))))

slugify(s) ==
    Truncate(StripUnderscores(CollapseUnderscores(SubUnsafe(ReplaceColons(
        ReplaceSeps(StripLower(s)))))), max_len)

\* ------------------------------------------------------------ the run
S_chrome  == <<"c","h","r","o","m","e">>
S_firefox == <<"f","i","r","e","f","o","x">>
S_edge    == <<"e","d","g","e">>
S_all     == <<"a","l","l">>

\* _browsers_from_value: (val or "chrome").strip().lower(), "all" is the
\* three supported kinds
browsers_from_value(val) ==
    LET b == StripLower(IF val = <<>> THEN S_chrome ELSE val)
    IN  IF b = S_all THEN <<S_chrome, S_firefox, S_edge>> ELSE <<b>>

VARIABLES
    run,        \* the invocation: resolved browser value, --per-test, video
                \* enabled, number of CSV rows
    items,      \* the collected items, in the order pytest runs them
    cur,        \* index of the item pytest is running (Len(items)+1: finished)
    pc,         \* where the run protocol of the current item stands
    funcargs,   \* item.funcargs: names of the fixtures filled so far
    ap,         \* item.funcargs["artifact_paths"]: the slug of the paths (<<>>: unset)
    drvArg,     \* the handle the driver fixture yielded to the item (0: none)
    otherUp,    \* the test's own fixtures were set up (their finalizers run)
    hadFailure, \* item._had_failure
    rep,        \* outcome of the reports of the current item
    shared,     \* cache of the session-scoped fixture _session_driver_obj
    drivers,    \* every build_driver call of the run and its session
    fs,         \* artifact directory of each slug: dir, screenshot, log, video
    handlers,   \* handlers of logging.getLogger("tests"), in order
    vr,         \* the VideoRecorder of the current item
    stray,      \* capture threads that outlived the stop() of their recorder
    attached,   \* files attached to the report: <<item, name>>
    captures,   \* times the failure branch of makereport ran for the item
    fhMade,     \* file handlers created for the item
    bad,        \* items whose setup or call report was failed or skipped
    resIn,      \* inputs of _resolve_browser_value
    resOut,     \* its result
    logged,     \* logging calls a caller of logger.py made on the logger
    slugIn,     \* two test identities given to test_artifact_paths
    slugOut,    \* the directories it returned for them
    csvIn,      \* a CSV file and the csv marker of a test
    csvOut,     \* the invocations pytest_generate_tests made of them
    reportSink, \* the parameters _allure_metadata sent to the report, per invocation
    suite       \* run_suite.main: browsers, pending invocations, worst

lifeVars == <<run, items, cur, pc, funcargs, ap, drvArg, otherUp, hadFailure, rep, shared,
              drivers, fs, handlers, vr, stray, attached, captures, fhMade, bad>>
resVars == <<resIn, resOut>>
slugVars == <<slugIn, slugOut>>
csvVars == <<csvIn, csvOut, reportSink>>
unitVars == <<logged, slugVars, csvVars, suite>>
sideVars == <<resVars, unitVars>>
vars == <<run, items, cur, pc, funcargs, ap, drvArg, otherUp, hadFailure, rep, shared,
          drivers, fs, handlers, vr, stray, attached, captures, fhMade, bad,
          resIn, resOut, logged, slugIn, slugOut, csvIn, csvOut, reportSink, suite>>

\* pytest_generate_tests: browser_name is parametrized with scope="session",
\* so pytest runs the items of one browser together; the csv marker gives
\* one invocation per row
collect(val, rows) ==
    LET ks == browsers_from_value(val)
    IN  [n \in 1..(Len(ks) * rows) |->
            [b |-> ks[((n - 1) \div rows) + 1], r |-> ((n - 1) % rows) + 1]]

\* request.node.nodeid of an item: file::function[browser-row-N]
NodeId(it) ==
    <<"t",".","p","y",":",":","t","[">> \o it.b \o <<"-","r","o","w","-">>
        \o <<DigitChars[it.r + 1]>> \o <<"]">>

\* test_artifact_paths(ARTIFACTS, nodeid): the directory ARTIFACTS/<slug> and
\* the files <slug>.png, <slug>.mp4, <slug>.log in it
test_artifact_paths(nodeid) == slugify(nodeid)

\* ap = item.funcargs.get("artifact_paths") or test_artifact_paths(ARTIFACTS, rep.nodeid)
ReportPath == IF ap # <<>> THEN ap ELSE test_artifact_paths(NodeId(items[cur]))

NoBundle == [dir |-> FALSE, shot |-> FALSE, video |-> FALSE, log |-> FALSE, recs |-> <<>>]
NoVr == [on |-> FALSE, thr |-> "none", frames |-> 0, reason |-> FALSE, stopped |-> FALSE,
         made |-> FALSE, encoded |-> FALSE, tmpdir |-> FALSE, tmpfiles |-> 0, fed |-> {}]
NoRep == [setup |-> "none", call |-> "none", teardown |-> "none"]
NoShared == [param |-> <<>>, st |-> "none", h |-> 0]
NoRes == [envB |-> <<>>, envP |-> <<>>, cli |-> <<>>, args |-> <<>>,
          single |-> <<>>, browser |-> <<>>]
NoOut == [done |-> FALSE, val |-> <<>>]

Last == cur = Len(items)

\* the variables of the run of the items, when no item is run
LifeIdle ==
    /\ run = [val |-> <<>>, perTest |-> FALSE, video |-> FALSE, rows |-> 0]
    /\ items = <<>>
    /\ cur = 1
    /\ funcargs = {}
    /\ ap = <<>>
    /\ drvArg = 0
    /\ otherUp = FALSE
    /\ hadFailure = FALSE
    /\ rep = NoRep
    /\ shared = NoShared
    /\ drivers = <<>>
    /\ vr = NoVr
    /\ stray = {}
    /\ attached = {}
    /\ captures = 0
    /\ fhMade = 0
    /\ bad = {}

\* the variables of the single functions, when none is exercised
NoSlugIn == [a |-> <<>>, b |-> <<>>]
NoSlugOut == [done |-> FALSE, a |-> <<>>, b |-> <<>>]
NoCsvIn == [header |-> <<>>, records |-> <<>>, cols |-> <<>>]
NoCsvOut == [done |-> FALSE, error |-> FALSE, items |-> <<>>]
NoSuite == [cfg |-> [t |-> "none", v |-> <<>>], environ |-> [B |-> <<>>, P |-> <<>>],
            browsers |-> <<>>, rc |-> <<>>, ran |-> <<>>,
            pending |-> {}, worst |-> 0, ret |-> <<>>]

UnitIdle ==
    /\ logged = 0
    /\ slugIn = NoSlugIn
    /\ slugOut = NoSlugOut
    /\ csvIn = NoCsvIn
    /\ csvOut = NoCsvOut
    /\ reportSink = <<>>
    /\ suite = NoSuite

\* ------------------------------------------------------------- logger.py
\* get_buffered_logger(name, level, capacity=10000)
capacity == 10000

Console == [t |-> "console", item |-> 0, buf |-> <<>>, target |-> <<>>, path |-> <<>>]
Mem(i)  == [t |-> "mem", item |-> i, buf |-> <<>>, target |-> <<>>, path |-> <<>>]
File(p) == [t |-> "file", item |-> 0, buf |-> <<>>, target |-> <<>>, path |-> p]

\* a FileHandler writes through its open stream: the records reach the file
\* at the path as long as the file is still there
WriteLog(f, p, recs) ==
    IF p \in DOMAIN f /\ f[p].log THEN [f EXCEPT ![p].recs = @ \o recs] ELSE f

\* a run of n equal log records of item i
Run(i, msg, n) == [item |-> i, msg |-> msg, n |-> n]

Rec(i, msg) == Run(i, msg, 1)

\* number of records in a buffer or file, kept as a sequence of runs
RECURSIVE BufLen(_)
BufLen(b) == IF b = <<>> THEN 0 ELSE b[1].n + BufLen(Tail(b))

\* index of the memory handler get_buffered_logger made for item i (0: none)
MemIndex(hs, i) ==
    IF \E k \in DOMAIN hs : hs[k].t = "mem" /\ hs[k].item = i
    THEN CHOOSE k \in DOMAIN hs : hs[k].t = "mem" /\ hs[k].item = i
    ELSE 0

\* Logger.handle: every attached handler gets the record.  A MemoryHandler
\* buffers it and flushes when the buffer reached its capacity
\* (flushLevel is above CRITICAL); MemoryHandler.flush without a target
\* keeps the buffer.
RECURSIVE LogFrom(_, _, _, _)
LogFrom(k, hs, f, rec) ==
    IF k > Len(hs) THEN [hs |-> hs, fs |-> f]
    ELSE IF hs[k].t = "file" THEN LogFrom(k + 1, hs, WriteLog(f, hs[k].path, <<rec>>), rec)
    ELSE IF hs[k].t = "mem"
         THEN LET b2 == Append(hs[k].buf, rec)
              IN  IF BufLen(b2) >= capacity /\ hs[k].target # <<>>
                  THEN LogFrom(k + 1, [hs EXCEPT ![k].buf = <<>>],
                               WriteLog(f, hs[k].target, b2), rec)
                  ELSE LogFrom(k + 1, [hs EXCEPT ![k].buf = b2], f, rec)
    ELSE LogFrom(k + 1, hs, f, rec)

Log(hs, f, rec) == LogFrom(1, hs, f, rec)

\* records a memory handler with a target still takes before it flushes
Room(h) == IF h.t = "mem" /\ h.target # <<>> THEN capacity - BufLen(h.buf) ELSE capacity

\* the smallest room of the handlers: fewer records than that flush nothing
RECURSIVE MinRoom(_)
MinRoom(hs) ==
    IF hs = <<>> THEN capacity
    ELSE LET r == Room(hs[1])
             m == MinRoom(Tail(hs))
         IN  IF r < m THEN r ELSE m

\* n equal records none of which makes a handler flush: every file handler
\* writes them, every memory handler buffers them
RECURSIVE Quiet(_, _, _, _)
Quiet(k, hs, f, r) ==
    IF k > Len(hs) \/ r.n = 0 THEN [hs |-> hs, fs |-> f]
    ELSE IF hs[k].t = "file" THEN Quiet(k + 1, hs, WriteLog(f, hs[k].path, <<r>>), r)
    ELSE IF hs[k].t = "mem" THEN Quiet(k + 1, [hs EXCEPT ![k].buf = Append(@, r)], f, r)
    ELSE Quiet(k + 1, hs, f, r)

\* n calls of logger.info with equal records, one record after the other:
\* the records before the next flush, the record that flushes, the rest
RECURSIVE LogRun(_, _, _, _, _)
LogRun(hs, f, i, msg, n) ==
    IF n = 0 THEN [hs |-> hs, fs |-> f]
    ELSE LET room == MinRoom(hs)
         IN  IF n < room THEN Quiet(1, hs, f, Run(i, msg, n))
             ELSE LET q == Quiet(1, hs, f, Run(i, msg, room - 1))
                      o == Log(q.hs, q.fs, Rec(i, msg))
                  IN  LogRun(o.hs, o.fs, i, msg, n - room)

\* get_buffered_logger: one console handler if the logger has none, and a
\* fresh memory handler per call
get_buffered_logger_console_each_call(hs, i) == Append(Append(hs, Console), Mem(i))

get_buffered_logger(hs, i) ==
    Append(IF \E k \in DOMAIN hs : hs[k].t = "console" THEN hs ELSE Append(hs, Console),
           Mem(i))

materialize_log_to_file_lost(hs, f, i, p) == [hs |-> hs, fs |-> f]

\* materialize_log_to_file: _make_file_handler creates the directory and
\* opens (creates) the file; the buffer is flushed to it; the file handler
\* stays attached to the logger
materialize_log_to_file(hs, f, i, p) ==
    LET k  == MemIndex(hs, i)
        f1 == [f EXCEPT ![p].dir = TRUE, ![p].log = TRUE]
    IN  [hs |-> Append([hs EXCEPT ![k].target = p, ![k].buf = <<>>], File(p)),
         fs |-> WriteLog(f1, p, hs[k].buf)]

\* drop_memory_handler: flush (a no-op without target), removeHandler, close
drop_memory_handler(hs, f, i) ==
    LET k == MemIndex(hs, i)
    IN  IF k = 0 THEN [hs |-> hs, fs |-> f]
        ELSE [hs |-> SelectSeq(hs, LAMBDA h : ~(h.t = "mem" /\ h.item = i)),
              fs |-> IF hs[k].target # <<>> THEN WriteLog(f, hs[k].target, hs[k].buf) ELSE f]

\* -------------------------------------------- pytest_runtest_makereport
Bad(o) == o \in {"failed", "skipped"}

\* setattr(item, "_had_failure", True) for a failed or skipped setup or call
had_failure_after(had, when, o) ==
    had \/ (when \in {"setup", "call"} /\ Bad(o))

\* _attach_log_if_nonempty: attach a non-empty log, unlink an empty one
attach_log_if_nonempty(f, p) ==
    IF f[p].log /\ f[p].recs = <<>> THEN [f EXCEPT ![p].log = FALSE] ELSE f

\* _rm_empty_dir
rm_empty_dir(f, p) ==
    IF f[p].dir /\ ~f[p].shot /\ ~f[p].video /\ ~f[p].log
    THEN [f EXCEPT ![p].dir = FALSE] ELSE f

\* a pass branch that keeps the video
pass_cleanup_keeps_video(f, p) ==
    rm_empty_dir(IF f[p].log /\ f[p].recs = <<>> THEN [f EXCEPT ![p].log = FALSE] ELSE f, p)

\* teardown report of a test without failure: unlink a zero-byte log,
\* unlink the video, remove the directory if it is empty
pass_cleanup(f, p) ==
    LET f1 == IF f[p].log /\ f[p].recs = <<>> THEN [f EXCEPT ![p].log = FALSE] ELSE f
        f2 == [f1 EXCEPT ![p].video = FALSE]
    IN  rm_empty_dir(f2, p)

\* --------------------------------------------------- browser sessions
Session(b, by, i, ok) ==
    [kind |-> b, by |-> by, item |-> i, ok |-> ok, alive |-> ok, quits |-> 0, warm |-> 0]

\* finalizer of _session_driver_obj: drv.quit()
session_quit(ds, h) == [ds EXCEPT ![h].alive = FALSE, ![h].quits = @ + 1]

\* a driver fixture that does not quit the session it built
driver_quit_missing(ds, h) == ds

\* finalizer of the driver fixture under --per-test: drv.quit()
driver_quit(ds, h) == [ds EXCEPT ![h].alive = FALSE, ![h].quits = @ + 1]

\* a session fixture that is set up again for every item
session_cached_never(sh, b) == FALSE

\* scope="session": the fixture value (or the exception of its setup) is
\* cached for the browser_name it was made for
session_cached(sh, b) == sh.st # "none" /\ sh.param = b

Fail(ph) == [rep EXCEPT ![ph] = "failed"]

\* ------------------------------------------------------------- setup
Init ==
    /\ run \in [val : {S_chrome, S_all}, perTest : BOOLEAN, video : BOOLEAN,
                rows : 1..MaxItems]
    /\ Len(browsers_from_value(run.val)) * run.rows <= MaxItems
    /\ items = collect(run.val, run.rows)
    /\ cur = 1
    /\ pc = "start"
    /\ funcargs = {}
    /\ ap = <<>>
    /\ drvArg = 0
    /\ otherUp = FALSE
    /\ hadFailure = FALSE
    /\ rep = NoRep
    /\ shared = NoShared
    /\ drivers = <<>>
    /\ fs = [p \in {test_artifact_paths(NodeId(items[i])) : i \in DOMAIN items} |-> NoBundle]
    /\ handlers = <<>>
    /\ vr = NoVr
    /\ stray = {}
    /\ attached = {}
    /\ captures = 0
    /\ fhMade = 0
    /\ bad = {}
    /\ resIn = NoRes
    /\ resOut = NoOut
    /\ UnitIdle

\* pytest_runtest_setup of the skipping plugin runs before any fixture: a
\* skip marker ends the setup with a skipped report
skip_marks ==
    /\ pc = "start"
    /\ \/ /\ rep' = [rep EXCEPT !.setup = "skipped"]
          /\ pc' = "report_setup"
       \/ /\ pc' = "fx_session"
          /\ UNCHANGED rep
    /\ UNCHANGED <<run, items, ap, cur, funcargs, drvArg, otherUp, hadFailure, shared, drivers,
                   fs, handlers, vr, stray, attached, captures, fhMade, bad, sideVars>>

\* _session_driver_obj(request, browser_name): when browser_name changed the
\* old value is finalized first (quit); a cached value or exception is
\* reused; otherwise build_driver is called
session_driver_obj ==
    /\ pc = "fx_session"
    /\ LET b     == items[cur].b
           stale == shared.st # "none" /\ shared.param # b
           ds1   == IF stale /\ shared.st = "ok" THEN session_quit(drivers, shared.h)
                    ELSE drivers
           sh1   == IF stale THEN NoShared ELSE shared
       IN  IF session_cached(sh1, b)
           THEN /\ drivers' = ds1
                /\ shared' = sh1
                /\ IF sh1.st = "ok"
                   THEN pc' = "fx_paths" /\ UNCHANGED rep
                   ELSE pc' = "report_setup" /\ rep' = Fail("setup")
           ELSE \E ok \in BOOLEAN :
                /\ drivers' = Append(ds1, Session(b, "shared", cur, ok))
                /\ shared' = [param |-> b, st |-> IF ok THEN "ok" ELSE "error",
                              h |-> IF ok THEN Len(ds1) + 1 ELSE 0]
                /\ IF ok
                   THEN pc' = "fx_warmup" /\ UNCHANGED rep
                   ELSE pc' = "report_setup" /\ rep' = Fail("setup")
    /\ UNCHANGED <<run, items, ap, cur, funcargs, drvArg, otherUp, hadFailure, fs, handlers, vr,
                   stray, attached, captures, fhMade, bad, sideVars>>

\* _warm_up_session: session-scoped, runs once for the session just built;
\* everything in it is inside try/except
warm_up_session ==
    /\ pc = "fx_warmup"
    /\ drivers' = [drivers EXCEPT ![shared.h].warm = @ + 1]
    /\ pc' = "fx_paths"
    /\ UNCHANGED <<run, items, ap, cur, funcargs, drvArg, otherUp, hadFailure, rep, shared, fs,
                   handlers, vr, stray, attached, captures, fhMade, bad, sideVars>>

\* artifact_paths: test_artifact_paths(ARTIFACTS, nodeid, create=False)
artifact_paths ==
    /\ pc = "fx_paths"
    /\ funcargs' = funcargs \cup {"artifact_paths"}
    /\ ap' = test_artifact_paths(NodeId(items[cur]))
    /\ pc' = "fx_logger"
    /\ UNCHANGED <<run, items, cur, drvArg, otherUp, hadFailure, rep, shared, drivers, fs,
                   handlers, vr, stray, attached, captures, fhMade, bad, sideVars>>

\* test_logger: get_buffered_logger("tests")
test_logger ==
    /\ pc = "fx_logger"
    /\ handlers' = get_buffered_logger(handlers, cur)
    /\ funcargs' = funcargs \cup {"test_logger"}
    /\ pc' = "fx_driver"
    /\ UNCHANGED <<run, items, ap, cur, drvArg, otherUp, hadFailure, rep, shared, drivers, fs,
                   vr, stray, attached, captures, fhMade, bad, sideVars>>

\* driver: the shared session, or with --per-test a session of its own
driver ==
    /\ pc = "fx_driver"
    /\ IF ~run.perTest
       THEN /\ drvArg' = shared.h
            /\ pc' = "fx_video"
            /\ UNCHANGED <<drivers, rep>>
       ELSE \E ok \in BOOLEAN :
            /\ drivers' = Append(drivers, Session(items[cur].b, "test", cur, ok))
            /\ IF ok
               THEN drvArg' = Len(drivers) + 1 /\ pc' = "fx_video" /\ UNCHANGED rep
               ELSE drvArg' = 0 /\ pc' = "report_setup" /\ rep' = Fail("setup")
    /\ UNCHANGED <<run, items, ap, cur, funcargs, otherUp, hadFailure, shared, fs, handlers, vr,
                   stray, attached, captures, fhMade, bad, sideVars>>

\* VideoRecorder.start: the temporary frames directory is made, the stop event
\* cleared, the frame count reset and, a provider being set, the thread that
\* runs _capture_loop_provider started
start(v) == [v EXCEPT !.on = TRUE, !.thr = "sleep", !.frames = 0, !.tmpdir = TRUE]

\* video_recorder: nothing with --no-video or video.enable off; otherwise a
\* recorder on the video path whose provider is driver.get_screenshot_as_png,
\* started.  item.funcargs gets video_recorder, then driver.
video_recorder ==
    /\ pc = "fx_video"
    /\ vr' = IF run.video THEN start(NoVr) ELSE NoVr
    /\ funcargs' = funcargs \cup {"video_recorder", "driver"}
    /\ pc' = "fx_other"
    /\ UNCHANGED <<run, items, ap, cur, drvArg, otherUp, hadFailure, rep, shared, drivers, fs,
                   handlers, stray, attached, captures, fhMade, bad, sideVars>>

\* the fixtures of the test itself (base_url, data, fixtures of the test
\* module) come last: they pass, raise or skip
other_fixtures ==
    /\ pc = "fx_other"
    /\ \E o \in {"passed", "failed", "skipped"} :
        /\ rep' = [rep EXCEPT !.setup = o]
        /\ otherUp' = (o = "passed")
    /\ pc' = "report_setup"
    /\ UNCHANGED <<run, items, ap, cur, funcargs, drvArg, hadFailure, shared, drivers, fs,
                   handlers, vr, stray, attached, captures, fhMade, bad, sideVars>>

\* ------------------------------------------------- the capture thread
\* _capture_loop_provider, one iteration: while the stop event is not set,
\* call the provider (a screenshot of the session the item uses) ...
provider_call ==
    /\ vr.on /\ vr.thr = "sleep" /\ ~vr.stopped
    /\ vr.frames < MaxFrames
    /\ vr' = [vr EXCEPT !.thr = "incall"]
    /\ UNCHANGED <<run, items, ap, cur, pc, funcargs, drvArg, otherUp, hadFailure, rep, shared,
                   drivers, fs, handlers, stray, attached, captures, fhMade, bad, sideVars>>

\* ... and write the frame; an exception records the reason and ends the loop
provider_return ==
    /\ vr.on /\ vr.thr = "incall"
    /\ \/ vr' = [vr EXCEPT !.thr = "sleep", !.frames = @ + 1, !.tmpfiles = @ + 1]
       \/ vr' = [vr EXCEPT !.thr = "done", !.reason = TRUE]
    /\ UNCHANGED <<run, items, ap, cur, pc, funcargs, drvArg, otherUp, hadFailure, rep, shared,
                   drivers, fs, handlers, stray, attached, captures, fhMade, bad, sideVars>>

\* the provider call of a thread that outlived stop() returns or raises; the
\* frames directory is gone and _frames_dir is None, so writing the frame
\* raises, and the stop event is set, so the loop ends
stray_return ==
    /\ \E th \in stray : stray' = stray \ {th}
    /\ UNCHANGED <<run, items, ap, cur, pc, funcargs, drvArg, otherUp, hadFailure, rep, shared,
                   drivers, fs, handlers, vr, attached, captures, fhMade, bad, sideVars>>

\* ------------------------------------------------------------ reports

\* pytest_runtest_makereport for the setup or call report with outcome o
MakeReport(when, o) ==
    /\ hadFailure' = had_failure_after(hadFailure, when, o)
    /\ IF Bad(o)
       THEN LET p   == ReportPath
                tl  == "test_logger" \in funcargs
                drv == "driver" \in funcargs
            IN  \E shotOk \in (IF drv THEN BOOLEAN ELSE {FALSE}) :
                LET f1   == [fs EXCEPT ![p].dir = TRUE, ![p].shot = @ \/ shotOk]
                    L1   == Log(handlers, f1, Rec(cur, "status"))
                    L2   == Log(L1.hs, L1.fs, Rec(cur, "reason"))
                    M    == materialize_log_to_file(L2.hs, L2.fs, cur, p)
                    shot == IF shotOk THEN {<<cur, "screenshot.png">>} ELSE {}
                IN  /\ captures' = captures + 1
                    /\ bad' = bad \cup {cur}
                    /\ IF tl
                       THEN /\ handlers' = M.hs
                            /\ fs' = attach_log_if_nonempty(M.fs, p)
                            /\ fhMade' = fhMade + 1
                            /\ attached' = attached \cup shot \cup
                                   (IF M.fs[p].log /\ M.fs[p].recs # <<>>
                                    THEN {<<cur, "test.log">>} ELSE {})
                       ELSE /\ fs' = f1
                            /\ attached' = attached \cup shot
                            /\ UNCHANGED <<handlers, fhMade>>
       ELSE UNCHANGED <<fs, handlers, attached, captures, fhMade, bad>>

report_setup ==
    /\ pc = "report_setup"
    /\ MakeReport("setup", rep.setup)
    /\ pc' = IF rep.setup = "passed" THEN "call" ELSE "td_other"
    /\ UNCHANGED <<run, items, ap, cur, funcargs, drvArg, otherUp, rep, shared, drivers, vr,
                   stray, sideVars>>

\* the test function: passes, fails or skips
call ==
    /\ pc = "call"
    /\ \E o \in {"passed", "failed", "skipped"} : rep' = [rep EXCEPT !.call = o]
    /\ pc' = "report_call"
    /\ UNCHANGED <<run, items, ap, cur, funcargs, drvArg, otherUp, hadFailure, shared, drivers,
                   fs, handlers, vr, stray, attached, captures, fhMade, bad, sideVars>>

report_call ==
    /\ pc = "report_call"
    /\ MakeReport("call", rep.call)
    /\ pc' = "td_other"
    /\ UNCHANGED <<run, items, ap, cur, funcargs, drvArg, otherUp, rep, shared, drivers, vr,
                   stray, sideVars>>

\* ----------------------------------------------------------- teardown
\* finalizers of the test's own fixtures: the only ones that can raise (every
\* finalizer of conftest.py swallows its exceptions); the others still run
other_teardown ==
    /\ pc = "td_other"
    /\ \E o \in (IF otherUp THEN {"passed", "failed"} ELSE {"passed"}) :
        rep' = [rep EXCEPT !.teardown = o]
    /\ pc' = "td_video"
    /\ UNCHANGED <<run, items, ap, cur, funcargs, drvArg, otherUp, hadFailure, shared, drivers,
                   fs, handlers, vr, stray, attached, captures, fhMade, bad, sideVars>>

\* what running the encoder can give: a video, no executable found, an exit
\* code that is not zero, exit code zero without the output file, an
\* exception of subprocess.run
EncoderResults == {"ok", "missing", "failed", "nofile", "raised"}

\* how the join of stop() can end for a thread inside the provider call: the
\* call returns a frame or raises within the 3 seconds, or the join times out
JoinResults == {"frame", "raised", "timeout"}

\* when the provider call of a thread that survived the join returns and the
\* thread writes its frame: between the two globs of stop(), before rmtree
\* (swept with the others), while rmtree runs (after it listed the directory
\* and before its rmdir), or after stop() returned
LateResults == {"between", "swept", "in_rmtree", "after"}

\* VideoRecorder.stop, the reason: the capture thread's own reason, "No frames
\* captured." when the first glob finds nothing, and one reason for each way
\* the encoder can fail.  n1: frames the first glob finds; ex: frames_exist
stop_reason_silent(prev, j, n1, ex, enc) == prev \/ j = "raised" \/ n1 = 0

stop_reason_encoder_only(prev, j, n1, ex, enc) ==
    prev \/ j = "raised" \/ (ex /\ enc # "ok")

stop_reason(prev, j, n1, ex, enc) ==
    prev \/ j = "raised" \/ n1 = 0 \/ (ex /\ enc # "ok")

\* the frame numbers in the directory after stop() looked at the n1 frames of
\* its first glob (frame_000000.png onwards, as the capture loop numbers
\* them): a single frame is copied to frame_000001.png
frames_after_glob_no_copy(n1) == 0..(n1 - 1)

frames_after_glob(n1) == IF n1 = 1 THEN {0, 1} ELSE 0..(n1 - 1)

stop_waits_for_thread(v, f, p, j, late, enc) ==
    [vr |-> [v EXCEPT !.thr = IF j = "timeout" THEN "stray" ELSE "done", !.stopped = TRUE],
     fs |-> f]

\* VideoRecorder.stop on recorder v with artifact files f and video path p
stop(v, f, p, j, late, enc) ==
    LET n1   == v.tmpfiles + (IF j = "frame" THEN 1 ELSE 0)
        ex   == n1 > 0 \/ (j = "timeout" /\ late = "between")
        run_ == ex /\ enc # "missing"
        left == j = "timeout" /\ late = "in_rmtree"
        got  == (IF j = "frame" THEN 1 ELSE 0)
                + (IF j = "timeout" /\ late # "after" THEN 1 ELSE 0)
        seen == frames_after_glob(n1)
                \cup (IF j = "timeout" /\ late = "between" THEN {v.tmpfiles} ELSE {})
    IN  [vr |-> [v EXCEPT !.thr = IF j = "timeout" /\ late = "after"
                                  THEN "stray" ELSE "done",
                          !.frames = @ + got, !.stopped = TRUE,
                          !.encoded = run_,
                          !.fed = IF run_ THEN seen ELSE {},
                          !.made = run_ /\ enc = "ok",
                          !.reason = stop_reason(v.reason, j, n1, ex, enc),
                          !.tmpdir = left,
                          !.tmpfiles = IF left THEN 1 ELSE 0],
         fs |-> IF run_
                THEN [f EXCEPT ![p].dir = TRUE, ![p].video = @ \/ (enc = "ok")]
                ELSE f]

\* finalizer of video_recorder: vr.stop().  A live thread is signalled and
\* joined for 3 seconds: a sleeping thread ends; a thread inside the provider
\* call ends when the call returns in time (with a frame or an exception),
\* and goes on running when it does not.
video_recorder_teardown ==
    /\ pc = "td_video"
    /\ IF ~vr.on
       THEN UNCHANGED <<vr, stray, fs>>
       ELSE \E j \in (IF vr.thr = "incall" THEN JoinResults ELSE {"ended"}),
               late \in LateResults, enc \in EncoderResults :
            LET r == stop(vr, fs, ap, j, late, enc)
            IN  /\ vr' = r.vr
                /\ stray' = IF r.vr.thr = "stray"
                            THEN stray \cup {[item |-> cur, h |-> drvArg]}
                            ELSE stray
                /\ fs' = r.fs
    /\ pc' = "td_driver"
    /\ UNCHANGED <<run, items, ap, cur, funcargs, drvArg, otherUp, hadFailure, rep, shared,
                   drivers, handlers, attached, captures, fhMade, bad, sideVars>>

\* finalizer of driver: quit only the session built under --per-test
driver_teardown ==
    /\ pc = "td_driver"
    /\ drivers' = IF run.perTest /\ drvArg # 0 THEN driver_quit(drivers, drvArg)
                  ELSE drivers
    /\ pc' = "td_session"
    /\ UNCHANGED <<run, items, ap, cur, funcargs, drvArg, otherUp, hadFailure, rep, shared, fs,
                   handlers, vr, stray, attached, captures, fhMade, bad, sideVars>>

\* after the last item pytest finalizes the session-scoped fixtures inside
\* that item's teardown phase: _session_driver_obj quits its session
session_teardown ==
    /\ pc = "td_session"
    /\ IF Last /\ shared.st = "ok"
       THEN drivers' = session_quit(drivers, shared.h) /\ shared' = NoShared
       ELSE UNCHANGED <<drivers, shared>>
    /\ pc' = "report_teardown"
    /\ UNCHANGED <<run, items, ap, cur, funcargs, drvArg, otherUp, hadFailure, rep, fs, handlers,
                   vr, stray, attached, captures, fhMade, bad, sideVars>>

\* pytest_runtest_makereport for the teardown report
report_teardown ==
    /\ pc = "report_teardown"
    /\ hadFailure' = had_failure_after(hadFailure, "teardown", rep.teardown)
    /\ LET p == ReportPath
           D == drop_memory_handler(handlers, fs, cur)
       IN  IF hadFailure'
           THEN /\ attached' = attached \cup
                        (IF fs[p].video THEN {<<cur, "test.mp4">>} ELSE {})
                /\ UNCHANGED <<fs, handlers>>
           ELSE /\ handlers' = IF "test_logger" \in funcargs THEN D.hs ELSE handlers
                /\ fs' = pass_cleanup(IF "test_logger" \in funcargs THEN D.fs ELSE fs, p)
                /\ UNCHANGED attached
    /\ pc' = "done"
    /\ UNCHANGED <<run, items, ap, cur, funcargs, drvArg, otherUp, rep, shared, drivers, vr,
                   stray, captures, fhMade, bad, sideVars>>

\* runtestprotocol is over: item.funcargs is cleared, the next item starts
next_item ==
    /\ pc = "done"
    /\ cur' = cur + 1
    /\ pc' = IF Last THEN "end" ELSE "start"
    /\ funcargs' = {}
    /\ ap' = <<>>
    /\ drvArg' = 0
    /\ otherUp' = FALSE
    /\ hadFailure' = FALSE
    /\ rep' = NoRep
    /\ vr' = NoVr
    /\ captures' = 0
    /\ fhMade' = 0
    /\ UNCHANGED <<run, items, shared, drivers, fs, handlers, stray, attached, bad, sideVars>>

Next ==
    \/ skip_marks
    \/ session_driver_obj
    \/ warm_up_session
    \/ artifact_paths
    \/ test_logger
    \/ driver
    \/ video_recorder
    \/ other_fixtures
    \/ provider_call
    \/ provider_return
    \/ stray_return
    \/ report_setup
    \/ call
    \/ report_call
    \/ other_teardown
    \/ video_recorder_teardown
    \/ driver_teardown
    \/ session_teardown
    \/ report_teardown
    \/ next_item

Spec == Init /\ [][Next]_vars

\* ------------------------------------------- _resolve_browser_value
\* command-line arguments: a test file, a node id, a directory, an option
ArgFile == <<"t", ".", "p", "y">>
ArgNode == <<"t", ".", "p", "y", ":", ":", "t">>
ArgDir  == <<"t", "s">>
ArgOpt  == <<"-", "q">>
ArgTokens == {ArgFile, ArgNode, ArgDir, ArgOpt}

\* ".py" in str(a)
ContainsPy(a) ==
    \E k \in 1..(Len(a) - 2) : a[k] = "." /\ a[k + 1] = "p" /\ a[k + 2] = "y"

\* _invoked_single_target: exactly one argument contains ".py"
invoked_single_target(args) ==
    Cardinality({k \in DOMAIN args : ContainsPy(args[k])}) = 1

\* CFG["execution"].get(key, "chrome"): <<>> stands for a key that is not set
CfgGet(v) == IF v = <<>> THEN S_chrome ELSE v

\* a resolution that lets --browser win over the environment
resolve_browser_value_cli_first(in) ==
    IF in.cli # <<>> THEN in.cli
    ELSE IF in.envB # <<>> THEN in.envB
    ELSE IF in.envP # <<>> THEN in.envP
    ELSE IF invoked_single_target(in.args) THEN CfgGet(in.single)
    ELSE CfgGet(in.browser)

\* _resolve_browser_value: an unset and an empty variable or option are both
\* falsy (<<>>)
resolve_browser_value(in) ==
    LET env_val == IF in.envB # <<>> THEN in.envB ELSE in.envP
    IN  IF env_val # <<>> THEN env_val
        ELSE IF in.cli # <<>> THEN in.cli
        ELSE IF invoked_single_target(in.args) THEN CfgGet(in.single)
        ELSE CfgGet(in.browser)

ArgLists == UNION {[1..n -> ArgTokens] : n \in 0..MaxArgs}

InitResolve ==
    /\ resIn \in [envB : {<<>>, S_firefox}, envP : {<<>>, S_edge},
                  cli : {<<>>, S_chrome, S_all}, args : ArgLists,
                  single : {<<>>, S_firefox}, browser : {<<>>, S_edge}]
    /\ resOut = NoOut
    /\ pc = "idle"
    /\ LifeIdle
    /\ fs = <<>>
    /\ handlers = <<>>
    /\ UnitIdle

\* pytest_generate_tests: val = _resolve_browser_value(metafunc.config)
resolve ==
    /\ pc = "idle"
    /\ ~resOut.done
    /\ resOut' = [done |-> TRUE, val |-> resolve_browser_value(resIn)]
    /\ UNCHANGED <<lifeVars, resIn, unitVars>>

NextResolve == resolve

SpecResolve == InitResolve /\ [][NextResolve]_vars

\* ------------------------------------------- logger.py, called freely
\* get_buffered_logger, logger.info, materialize_log_to_file and
\* drop_memory_handler called in any order on the logger "tests"
MaxLoggers == 2
MaxHandlers == 5
MaxLogged == 3

LoggerPath(i) == <<"t", IF i = 1 THEN "1" ELSE "2">>

InitLogger ==
    /\ pc = "logger"
    /\ LifeIdle
    /\ fs = [p \in {LoggerPath(i) : i \in 1..MaxLoggers} |-> NoBundle]
    /\ handlers = <<>>
    /\ resIn = NoRes
    /\ resOut = NoOut
    /\ UnitIdle

\* the variables of the run and of the other functions, for a function
\* exercised on its own
Elsewhere ==
    /\ LifeIdle
    /\ fs = <<>>
    /\ handlers = <<>>
    /\ resIn = NoRes
    /\ resOut = NoOut

lg_get_buffered_logger ==
    /\ pc = "logger"
    /\ Len(handlers) < MaxHandlers - 1
    /\ \E i \in 1..MaxLoggers :
        /\ MemIndex(handlers, i) = 0
        /\ handlers' = get_buffered_logger(handlers, i)
    /\ UNCHANGED <<run, items, cur, pc, funcargs, ap, drvArg, otherUp, hadFailure, rep, shared,
                   drivers, fs, vr, stray, attached, captures, fhMade, bad, resVars, unitVars>>

\* logger.info called once, or capacity - 1 times in a row; the records carry
\* the number of the call and which of the two it was
lg_info ==
    /\ pc = "logger"
    /\ handlers # <<>>
    /\ logged < MaxLogged
    /\ \E n \in {1, capacity - 1} :
        LET r == LogRun(handlers, fs, logged, IF n = 1 THEN "one" ELSE "many", n)
        IN  handlers' = r.hs /\ fs' = r.fs
    /\ logged' = logged + 1
    /\ UNCHANGED <<run, items, cur, pc, funcargs, ap, drvArg, otherUp, hadFailure, rep, shared,
                   drivers, vr, stray, attached, captures, fhMade, bad, resVars,
                   slugVars, csvVars, suite>>

lg_materialize_log_to_file ==
    /\ pc = "logger"
    /\ Len(handlers) < MaxHandlers
    /\ \E i \in 1..MaxLoggers :
        /\ MemIndex(handlers, i) # 0
        /\ handlers[MemIndex(handlers, i)].target = <<>>
        /\ LET r == materialize_log_to_file(handlers, fs, i, LoggerPath(i))
           IN  handlers' = r.hs /\ fs' = r.fs
    /\ UNCHANGED <<run, items, cur, pc, funcargs, ap, drvArg, otherUp, hadFailure, rep, shared,
                   drivers, vr, stray, attached, captures, fhMade, bad, resVars, unitVars>>

lg_drop_memory_handler ==
    /\ pc = "logger"
    /\ \E i \in 1..MaxLoggers :
        /\ MemIndex(handlers, i) # 0
        /\ LET r == drop_memory_handler(handlers, fs, i)
           IN  handlers' = r.hs /\ fs' = r.fs
    /\ UNCHANGED <<run, items, cur, pc, funcargs, ap, drvArg, otherUp, hadFailure, rep, shared,
                   drivers, vr, stray, attached, captures, fhMade, bad, resVars, unitVars>>

NextLogger ==
    \/ lg_get_buffered_logger
    \/ lg_info
    \/ lg_materialize_log_to_file
    \/ lg_drop_memory_handler

SpecLogger == InitLogger /\ [][NextLogger]_vars

\* ------------------------------------- slugify and test_artifact_paths
MaxCore == 3

SlugAlphabet == {"A", "a", "/", ":", "_", " ", "[", "."}

\* the strings of at most MaxCore characters
Cores == UNION {[1..n -> SlugAlphabet] : n \in 0..MaxCore}

Filler(n) == [i \in 1..n |-> "x"]

\* the example of slugify's docstring:
\* "tests/test_signup_csv.py::test_signup[Row 1]"
DocExample ==
    <<"t","e","s","t","s","/","t","e","s","t","_","s","i","g","n","u","p","_","c","s","v",
      ".","p","y",":",":","t","e","s","t","_","s","i","g","n","u","p","[","R","o","w"," ",
      "1","]">>

\* its stated result: "tests_test_signup_csv_py__test_signup_row_1"
DocResult ==
    <<"t","e","s","t","s","_","t","e","s","t","_","s","i","g","n","u","p","_","c","s","v",
      "_","p","y","_","_","t","e","s","t","_","s","i","g","n","u","p","_","r","o","w","_",
      "1">>

\* c itself, and c with its letters in lower case, with its path separators
\* or its colons replaced by underscores, or with another last character
Variants(c) ==
    {c, [i \in DOMAIN c |-> LowerChar(c[i])], ReplaceSeps(c),
     [i \in DOMAIN c |-> IF c[i] = ":" THEN "_" ELSE c[i]],
     [i \in DOMAIN c |-> IF i = Len(c) THEN "b" ELSE c[i]]}

\* two identities: short ones, or ones that share max_len - 1 characters
InitSlug ==
    /\ pc = "slug"
    /\ slugIn \in {[a |-> Filler(n) \o c[1], b |-> Filler(n) \o c[2]] :
                     n \in {0, max_len - 1},
                     c \in UNION {{<<x, y>> : y \in Variants(x)} : x \in Cores}}
                  \cup {[a |-> DocExample, b |-> DocExample]}
    /\ slugOut = NoSlugOut
    /\ Elsewhere
    /\ logged = 0
    /\ csvIn = NoCsvIn
    /\ csvOut = NoCsvOut
    /\ reportSink = <<>>
    /\ suite = NoSuite

artifact_dirs ==
    /\ pc = "slug"
    /\ ~slugOut.done
    /\ slugOut' = [done |-> TRUE, a |-> test_artifact_paths(slugIn.a),
                   b |-> test_artifact_paths(slugIn.b)]
    /\ UNCHANGED <<lifeVars, resVars, logged, slugIn, csvVars, suite>>

NextSlug == artifact_dirs

SpecSlug == InitSlug /\ [][NextSlug]_vars

\* --------------------------------------- csv_loader.py and the csv marker
MaxRecords == 3
MaxCells == 2

\* _norm_header with mode "lower_underscore"
norm_header(h) ==
    LET s == StripLower(h)
    IN  [i \in DOMAIN s |-> IF s[i] \in {" ", "-"} THEN "_" ELSE s[i]]

\* csv.DictReader: records without any cell (blank lines) are skipped
DataRecords(recs) == SelectSeq(recs, LAMBDA r : r # <<>>)

\* one row of read_csv: the cells are zipped with the header, a later column
\* of the same (normalized) name replaces an earlier one, cells beyond the
\* header are ignored, missing cells are "", every value is stripped
clean_row(header, r) ==
    [k \in {norm_header(header[j]) : j \in DOMAIN header} |->
        LET j == CHOOSE a \in DOMAIN header :
                    /\ norm_header(header[a]) = k
                    /\ \A b \in DOMAIN header : norm_header(header[b]) = k => b <= a
        IN  IF j <= Len(r) THEN RStrip(LStrip(r[j], SpaceChars), SpaceChars) ELSE <<>>]

\* a read_csv that keeps the first of equal rows only
read_csv_distinct(header, recs) ==
    LET d == DataRecords(recs)
        keep == {i \in DOMAIN d : \A k \in 1..(i - 1) : d[k] # d[i]}
        Nth(n) == CHOOSE i \in keep : Cardinality({k \in keep : k <= i}) = n
    IN  [n \in 1..Cardinality(keep) |-> clean_row(header, d[Nth(n)])]

\* read_csv(path, has_header=True): the rows as dicts, in file order
read_csv(header, recs) ==
    LET d == DataRecords(recs)
    IN  [i \in DOMAIN d |-> clean_row(header, d[i])]

\* rows_to_args(rows, *cols, require_all=True): a tuple per row; KeyError
\* after the last row when a row lacks a column
rows_to_args(rows, cols) ==
    IF \E i \in DOMAIN rows : \E c \in DOMAIN cols : cols[c] \notin DOMAIN rows[i]
    THEN [error |-> TRUE, args |-> <<>>]
    ELSE [error |-> FALSE,
          args |-> [i \in DOMAIN rows |-> [c \in DOMAIN cols |-> rows[i][cols[c]]]]]

\* f"row-{i+1}"
RowId(n) == <<"r", "o", "w", "-", DigitChars[n + 1]>>

\* metafunc.parametrize(names, values, ids): an invocation per value; for an
\* empty list pytest makes one invocation that is skipped
parametrize(values) ==
    IF values = <<>>
    THEN <<[id |-> <<"N","O","T","S","E","T">>, arg |-> <<>>, skip |-> TRUE]>>
    ELSE [i \in DOMAIN values |-> [id |-> RowId(i), arg |-> values[i], skip |-> FALSE]]

\* pytest_generate_tests, the csv marker: with no cols the rows go to the
\* parameter "data", otherwise the named columns go to the parameters of
\* those names
csv_parametrize(in) ==
    LET rows == read_csv(in.header, in.records)
    IN  IF in.cols = <<>>
        THEN [done |-> TRUE, error |-> FALSE, items |-> parametrize(rows)]
        ELSE LET a == rows_to_args(rows, in.cols)
             IN  IF a.error THEN [done |-> TRUE, error |-> TRUE, items |-> <<>>]
                 ELSE [done |-> TRUE, error |-> FALSE, items |-> parametrize(a.args)]

\* the first occurrence of each element of a sequence, in order
Distinct(bs) ==
    LET keep == {i \in DOMAIN bs : \A k \in 1..(i - 1) : bs[k] # bs[i]}
        Nth(n) == CHOOSE i \in keep : Cardinality({k \in keep : k <= i}) = n
    IN  [n \in 1..Cardinality(keep) |-> bs[Nth(n)]]

\* s has sub as a substring
Contains(s, sub) ==
    \E i \in 0..(Len(s) - Len(sub)) : SubSeq(s, i + 1, i + Len(sub)) = sub

\* _should_mask: the lower-cased name contains one of the marks
MaskMarks ==
    {<<"p","a","s","s">>, <<"p","w","d">>, <<"p","a","s","s","w","o","r","d">>,
     <<"s","e","c","r","e","t">>, <<"t","o","k","e","n">>, <<"k","e","y">>}

should_mask(k) ==
    \E m \in MaskMarks : Contains([i \in DOMAIN k |-> LowerChar(k[i])], m)

\* _safe_str(v, limit=60) on the text of v
safe_str(s) == IF Len(s) <= 60 THEN s ELSE SubSeq(s, 1, 59) \o <<"...">>

\* repr of a str without quotes or backslashes in it
Quote(s) == <<"'">> \o s \o <<"'">>

\* str(d) of a dict of strings whose keys, in insertion order, are ks
RECURSIVE DictItems(_, _)
DictItems(d, ks) ==
    IF ks = <<>> THEN <<>>
    ELSE Quote(ks[1]) \o <<":", " ">> \o Quote(d[ks[1]])
         \o (IF Len(ks) > 1 THEN <<",", " ">> ELSE <<>>) \o DictItems(d, Tail(ks))

DictStr(d, ks) == <<"{">> \o DictItems(d, ks) \o <<"}">>

S_data == <<"d","a","t","a">>
S_masked == <<"<","m","a","s","k","e","d",">">>

\* the parameters _allure_metadata sends for invocation it: callspec.params
\* is {"data": row} without cols, and one parameter per named column with
\* cols
allure_parameters(it, in) ==
    IF in.cols = <<>>
    THEN LET ks == Distinct([j \in DOMAIN in.header |-> norm_header(in.header[j])])
         IN  {[name |-> S_data,
               value |-> IF should_mask(S_data) THEN S_masked
                         ELSE safe_str(DictStr(it.arg, ks))]}
    ELSE {[name |-> in.cols[c],
           value |-> IF should_mask(in.cols[c]) THEN S_masked
                     ELSE safe_str(it.arg[c])] : c \in DOMAIN in.cols}

H_k == <<"k">>
H_K == <<"K", " ">>
H_v == <<"v">>
H_token == <<"T","o","k","e","n">>
CsvHeaders == {<<H_k>>, <<H_k, H_v>>, <<H_k, H_K>>, <<H_k, H_token>>}
CsvCells == {<<"a">>, <<"b", " ">>, <<>>}
CsvRecords == UNION {[1..n -> CsvCells] : n \in 0..MaxCells}
CsvFiles == UNION {[1..n -> CsvRecords] : n \in 0..MaxRecords}

InitCsv ==
    /\ pc = "csv"
    /\ csvIn \in [header : CsvHeaders, records : CsvFiles, cols : {<<>>, <<H_k>>, <<H_v>>, <<norm_header(H_token)>>}]
    /\ csvOut = NoCsvOut
    /\ reportSink = <<>>
    /\ Elsewhere
    /\ logged = 0
    /\ slugIn = NoSlugIn
    /\ slugOut = NoSlugOut
    /\ suite = NoSuite

generate_tests_csv ==
    /\ pc = "csv"
    /\ ~csvOut.done
    /\ csvOut' = csv_parametrize(csvIn)
    /\ UNCHANGED <<lifeVars, resVars, logged, slugVars, csvIn, reportSink, suite>>

\* _allure_metadata of the next invocation: every parameter of the callspec
\* but browser_name is sent to the report
allure_metadata ==
    /\ pc = "csv"
    /\ csvOut.done /\ ~csvOut.error
    /\ Len(reportSink) < Len(csvOut.items)
    /\ ~csvOut.items[Len(reportSink) + 1].skip
    /\ reportSink' = Append(reportSink,
                            allure_parameters(csvOut.items[Len(reportSink) + 1], csvIn))
    /\ UNCHANGED <<lifeVars, resVars, logged, slugVars, csvIn, csvOut, suite>>

NextCsv ==
    \/ generate_tests_csv
    \/ allure_metadata

SpecCsv == InitCsv /\ [][NextCsv]_vars

\* ------------------------------------------------------- run_suite.py
\* as_list: "all" (in any case) is the three kinds, another string is one
\* browser, a list is taken as it is, anything else is the three kinds
as_list(val) ==
    IF val.t = "str"
    THEN IF [i \in DOMAIN val.v |-> LowerChar(val.v[i])] = S_all
         THEN <<S_chrome, S_firefox, S_edge>> ELSE <<val.v>>
    ELSE IF val.t = "list" THEN val.v
    ELSE <<S_chrome, S_firefox, S_edge>>

\* list(dict.fromkeys(bs)): the first occurrence of each element, in order
fromkeys(bs) ==
    LET keep == {i \in DOMAIN bs : \A k \in 1..(i - 1) : bs[k] # bs[i]}
        Nth(n) == CHOOSE i \in keep : Cardinality({k \in keep : k <= i}) = n
    IN  [n \in 1..Cardinality(keep) |-> bs[Nth(n)]]

\* main: browsers = [b.lower() for b in dict.fromkeys(as_list(...))]
suite_browsers(val) ==
    LET bs == fromkeys(as_list(val))
    IN  [i \in DOMAIN bs |-> [k \in DOMAIN bs[i] |-> LowerChar(bs[i][k])]]

\* run_one: the per-browser output directories under ROOT/reports
res_dir(b) == <<"reports", "allure-results", b>>

rep_dir(b) == <<"reports", "allure-report", b>>

\* what subprocess.call returns for a pytest run: its exit code, or -N when
\* the process was ended by signal N
RcValues == {0, 1, 2, -9}

S_Chrome == <<"C","h","r","o","m","e">>

\* cfg["browsers"] of suite.yaml: absent, a string or a list
SuiteCfgs ==
    {[t |-> "none", v |-> <<>>], [t |-> "str", v |-> S_all], [t |-> "str", v |-> S_edge],
     [t |-> "list", v |-> <<S_firefox, S_edge>>],
     [t |-> "list", v |-> <<S_chrome, S_chrome>>],
     [t |-> "list", v |-> <<S_Chrome, S_chrome>>]}

\* os.environ of the runner: BROWSER and PYTEST_BROWSER, set or not
SuiteEnvirons == [B : {<<>>, S_firefox}, P : {<<>>, S_edge}]

\* run_one: what decides the browser in the pytest process it starts.  The
\* environment is a copy of the runner's with the three directories added,
\* the command line has the tests directory and --browser=<browser>
run_one_invocation(browser, environ) ==
    [envB |-> environ.B, envP |-> environ.P, cli |-> browser, args |-> <<ArgDir>>,
     single |-> <<>>, browser |-> <<>>]

InitSuite ==
    /\ pc = "suite"
    /\ suite \in [cfg : SuiteCfgs, environ : SuiteEnvirons, browsers : {<<>>}, rc : {<<>>},
                  ran : {<<>>}, pending : {{}}, worst : {0}, ret : {<<>>}]
    /\ Elsewhere
    /\ logged = 0
    /\ slugIn = NoSlugIn
    /\ slugOut = NoSlugOut
    /\ csvIn = NoCsvIn
    /\ csvOut = NoCsvOut
    /\ reportSink = <<>>

\* main up to the submission of one run_one per browser
suite_submit ==
    /\ pc = "suite"
    /\ LET bs == suite_browsers(suite.cfg)
       IN  suite' = [suite EXCEPT !.browsers = bs, !.pending = DOMAIN bs,
                                  !.rc = [i \in DOMAIN bs |-> 0],
                                  !.ran = [i \in DOMAIN bs |-> <<>>], !.worst = 0]
    /\ pc' = "suite_wait"
    /\ UNCHANGED <<run, items, cur, funcargs, ap, drvArg, otherUp, hadFailure, rep, shared,
                   drivers, fs, handlers, vr, stray, attached, captures, fhMade, bad,
                   resVars, logged, slugVars, csvVars>>

\* worst = rc if rc > worst else worst
worst_after(worst, rc) == IF rc > worst THEN rc ELSE worst

\* as_completed hands over the next finished run_one, whichever it is: its
\* pytest process ran on the browser value it resolved and returned rc
suite_completed ==
    /\ pc = "suite_wait"
    /\ \E i \in suite.pending, rc \in RcValues :
        suite' = [suite EXCEPT
                    !.pending = @ \ {i}, !.rc[i] = rc,
                    !.ran[i] = resolve_browser_value(
                                   run_one_invocation(suite.browsers[i], suite.environ)),
                    !.worst = worst_after(@, rc)]
    /\ UNCHANGED <<lifeVars, resVars, logged, slugVars, csvVars>>

\* return worst
suite_return ==
    /\ pc = "suite_wait"
    /\ suite.pending = {}
    /\ suite' = [suite EXCEPT !.ret = <<suite.worst>>]
    /\ pc' = "suite_done"
    /\ UNCHANGED <<run, items, cur, funcargs, ap, drvArg, otherUp, hadFailure, rep, shared,
                   drivers, fs, handlers, vr, stray, attached, captures, fhMade, bad,
                   resVars, logged, slugVars, csvVars>>

NextSuite ==
    \/ suite_submit
    \/ suite_completed
    \/ suite_return

SpecSuite == InitSuite /\ [][NextSuite]_vars

\* ============================================================== claims
PathOf(i) == test_artifact_paths(NodeId(items[i]))
Running == cur \in DOMAIN items
HasBundle(b) == b.dir /\ (b.shot \/ b.log \/ b.video)
Kinds == {items[i].b : i \in DOMAIN items}
Calls(k) == Cardinality({h \in DOMAIN drivers : drivers[h].kind = k})
Alive == {h \in DOMAIN drivers : drivers[h].alive}
AnyBad == Bad(rep.setup) \/ Bad(rep.call) \/ Bad(rep.teardown)

C2_LogKept ==
    (pc = "done" /\ (Bad(rep.setup) \/ Bad(rep.call))) =>
        (fs[ReportPath].log /\ fs[ReportPath].recs # <<>>)

\* C3: when any of the three phases of an item failed or was skipped, the
\* teardown report takes the failure branch: a video that was produced is
\* attached and still there, and the buffered log was not discarded.
C3_AnyPhaseFailure ==
    (pc = "done" /\ AnyBad) =>
        /\ vr.made => (fs[ReportPath].video /\ <<cur, "test.mp4">> \in attached)
        /\ "test_logger" \in funcargs => MemIndex(handlers, cur) # 0

\* C4: over the three reports of an item the failure capture ran exactly once
\* and made exactly one file handler when a phase failed or was skipped, and
\* did not run when all phases passed.
C4_CaptureOnce ==
    pc = "done" =>
        IF AnyBad THEN captures = 1 /\ fhMade = 1 ELSE captures = 0 /\ fhMade = 0

\* C5 as claimed: without --per-test, at the end of the run build_driver has
\* been called exactly once for every selected browser kind.
C5_ExactlyOncePerKind ==
    (pc = "end" /\ ~run.perTest) => \A k \in Kinds : Calls(k) = 1

\* C5 as amended: without --per-test, build_driver is called at most once per
\* selected browser kind, and exactly once for the kind of an item that got
\* past the session fixtures; an item that gets a handle from the driver
\* fixture gets the one session of its kind, alive while the item uses it;
\* and never are two sessions of one kind alive.
C5_OncePerKind ==
    ~run.perTest =>
        /\ \A k \in Kinds : Calls(k) <= 1
        /\ (Running /\ ap # <<>>) => Calls(items[cur].b) = 1
        /\ drvArg # 0 =>
            /\ drivers[drvArg].kind = items[cur].b
            /\ drivers[drvArg].by = "shared"
            /\ pc \notin {"report_teardown", "done"} => drivers[drvArg].alive
        /\ \A h1, h2 \in Alive : drivers[h1].kind = drivers[h2].kind => h1 = h2

\* C5 witness: a later item of the run is given the session that an earlier
\* item caused to be built.
C5_Witness ==
    ~run.perTest /\ pc = "call" /\ drvArg # 0 /\ drivers[drvArg].item < cur

\* C6: with --per-test, while the test function runs the session it uses was
\* built in its own setup and is the only session alive.
C6_OnlyOwnSession ==
    (run.perTest /\ pc \in {"call", "report_call"}) =>
        /\ drivers[drvArg].by = "test" /\ drivers[drvArg].item = cur
        /\ Alive = {drvArg}

\* C7: at the end of the run quit() has been called on every session that
\* build_driver returned, and none is alive, in both modes and whatever the
\* outcomes of the tests were.
C7_AllQuit ==
    pc = "end" => \A h \in DOMAIN drivers :
        drivers[h].ok => (drivers[h].quits >= 1 /\ ~drivers[h].alive)

\* C7 witness: a --per-test run has ended in which a shared session and a
\* session of a test were built and a test failed or was skipped.
C7_Witness ==
    /\ pc = "end" /\ run.perTest /\ bad # {}
    /\ \E h1, h2 \in DOMAIN drivers :
        /\ drivers[h1].ok /\ drivers[h1].by = "shared"
        /\ drivers[h2].ok /\ drivers[h2].by = "test"

\* C8: a capture thread started for an item is inside a provider call (a
\* screenshot of the session) only while that item is set up, called or torn
\* down: never after the item's teardown phase or during a later item.
C8_NoStrayAccess ==
    \A th \in stray : th.item = cur /\ pc \in {"td_driver", "td_session"}

\* C9: the resolved browser value is the first that is set of: BROWSER,
\* PYTEST_BROWSER, --browser, execution.default_single_file_browser when
\* exactly one test file or node id was given, execution.browser.
FilesOrNodes(args) == {k \in DOMAIN args : args[k] \in {ArgFile, ArgNode}}
Precedence(in) ==
    <<in.envB, in.envP, in.cli,
      IF Cardinality(FilesOrNodes(in.args)) = 1 THEN CfgGet(in.single) ELSE <<>>,
      CfgGet(in.browser)>>
FirstSet(s) == s[CHOOSE k \in DOMAIN s : s[k] # <<>> /\ \A j \in 1..(k - 1) : s[j] = <<>>]
C9_Precedence ==
    resOut.done =>
        /\ resOut.val = FirstSet(Precedence(resIn))
        /\ (resIn.envB # <<>> /\ resIn.cli # <<>>) => resOut.val = resIn.envB

\* C9 witness: BROWSER and --browser are both set, to different values, and
\* the value has been resolved.
C9_Witness ==
    resOut.done /\ resIn.envB # <<>> /\ resIn.cli # <<>> /\ resIn.envB # resIn.cli

\* C10: at the end of a run an artifact bundle exists at the paths of an item
\* only if the setup or call of that item failed or was skipped, and no step
\* of the run creates or deletes a directory, screenshot, log or video at the
\* paths of an item other than the one it runs for.
Presence(b) == <<b.dir, b.shot, b.log, b.video>>
C11_FramesGone ==
    vr.stopped => (~vr.tmpdir /\ vr.tmpfiles = 0)

\* C12: when stop() is called after start() and the recorder captured no
\* frame, the encoder is not run, there is no video file at the video path
\* and reason() is set.
C12_NoFrames ==
    (vr.stopped /\ vr.frames = 0) =>
        (~vr.encoded /\ ~vr.made /\ ~fs[ap].video /\ vr.reason)

\* C12 witness: a started recorder was stopped without a captured frame.
C12_Witness ==
    vr.on /\ vr.stopped /\ vr.frames = 0 /\ pc = "td_driver"

\* C13: when stop() had frames and the encoder did not give a video (no
\* executable, exit code not zero, or no output file), reason() is set, and
\* the step that runs stop() goes on to the next finalizer and changes no
\* outcome of the test.
C13_EncoderFailure ==
    /\ [](vr.stopped /\ vr.frames > 0 /\ ~vr.made => vr.reason)
    /\ [][(~vr.stopped /\ vr'.stopped) =>
            (pc' = "td_driver" /\ rep' = rep /\ hadFailure' = hadFailure /\ bad' = bad)]_vars

\* C13 witness: the encoder was run on the frames of a test that passed its
\* three phases and gave no video.
C13_Witness ==
    /\ vr.stopped /\ vr.frames > 0 /\ vr.encoded /\ ~vr.made
    /\ rep.setup = "passed" /\ rep.call = "passed" /\ rep.teardown = "passed"

\* C14: once get_buffered_logger has been called, the logger has exactly one
\* console handler, whatever the calls of get_buffered_logger,
\* materialize_log_to_file and drop_memory_handler that followed.
C14_OneConsole ==
    handlers # <<>> =>
        Cardinality({k \in DOMAIN handlers : handlers[k].t = "console"}) = 1

\* C14 witness: get_buffered_logger was called for two tests, the buffer of
\* the first was written to its file and then dropped, the second is attached.
C14_Witness ==
    /\ pc = "logger"
    /\ MemIndex(handlers, 1) = 0 /\ MemIndex(handlers, 2) # 0
    /\ \E k \in DOMAIN handlers : handlers[k].t = "file" /\ handlers[k].path = LoggerPath(1)

\* C15: a memory handler attached by get_buffered_logger never holds more
\* records than its capacity.
C15_Bounded ==
    \A k \in DOMAIN handlers :
        handlers[k].t = "mem" => BufLen(handlers[k].buf) <= capacity

\* C16: what slugify returns is lowercase, has only characters of
\* [a-z0-9._-], has no two underscores in a row and is at most 120 long.
C16_SlugShape ==
    slugOut.done => \A o \in {slugOut.a, slugOut.b} :
        /\ \A i \in DOMAIN o : SafeChar(o[i]) /\ LowerChar(o[i]) = o[i]
        /\ \A i \in 1..(Len(o) - 1) : ~(o[i] = "_" /\ o[i + 1] = "_")
        /\ Len(o) <= 120

\* C16 witness: slugify was given more than 120 characters, an upper case
\* letter, a bracket and "::" among them, and returned 120.
C16_Witness ==
    /\ slugOut.done /\ Len(slugIn.a) > 120 /\ Len(slugOut.a) = 120
    /\ \E i \in DOMAIN slugIn.a : slugIn.a[i] = "A"
    /\ \E i \in 1..(Len(slugIn.b) - 1) : slugIn.b[i] = ":" /\ slugIn.b[i + 1] = ":"

\* C17: two distinct test identities get distinct artifact directories.
C17_NoCollision ==
    (slugOut.done /\ slugIn.a # slugIn.b) => slugOut.a # slugOut.b

\* C18: slugify of "tests/test_signup_csv.py::test_signup[Row 1]" is
\* "tests_test_signup_csv_py__test_signup_row_1".
C18_DocExample ==
    (slugOut.done /\ slugIn.a = DocExample) => slugOut.a = DocResult

\* the data rows of the file: its records that are not blank lines
CsvRows == DataRecords(csvIn.records)

\* the cell of data row i in the column named k (the last of that name), stripped
CsvCell(i, k) ==
    LET h == csvIn.header
        j == CHOOSE a \in DOMAIN h :
                /\ norm_header(h[a]) = k
                /\ \A b \in DOMAIN h : norm_header(h[b]) = k => b <= a
    IN  IF j <= Len(CsvRows[i])
        THEN RStrip(LStrip(CsvRows[i][j], SpaceChars), SpaceChars) ELSE <<>>

CsvColumns == {norm_header(csvIn.header[j]) : j \in DOMAIN csvIn.header}

\* invocation i has the id row-i and the values of data row i
CsvRowIs(i) ==
    LET it == csvOut.items[i]
    IN  /\ it.id = RowId(i) /\ ~it.skip
        /\ IF csvIn.cols = <<>>
           THEN DOMAIN it.arg = CsvColumns /\ \A k \in CsvColumns : it.arg[k] = CsvCell(i, k)
           ELSE it.arg = [c \in DOMAIN csvIn.cols |-> CsvCell(i, csvIn.cols[c])]

\* C19 as claimed: a file with n data rows gives exactly n invocations,
\* row-1 to row-n, invocation i with the values of data row i.
C19_ExactlyN ==
    csvOut.done =>
        /\ ~csvOut.error
        /\ Len(csvOut.items) = Len(CsvRows)
        /\ \A i \in DOMAIN csvOut.items : CsvRowIs(i)

\* C19 as amended: a file with n >= 1 data rows whose header has the columns
\* the marker names gives exactly n invocations, row-1 to row-n in file
\* order, invocation i with the values of data row i; a file without data
\* rows gives one skipped invocation; a marker naming a column the header
\* lacks, with n >= 1, gives an error and no invocation.
C19_RowPerInvocation ==
    csvOut.done =>
        IF CsvRows = <<>>
        THEN ~csvOut.error /\ Len(csvOut.items) = 1 /\ csvOut.items[1].skip
        ELSE IF \E c \in DOMAIN csvIn.cols : csvIn.cols[c] \notin CsvColumns
        THEN csvOut.error /\ csvOut.items = <<>>
        ELSE /\ ~csvOut.error
             /\ Len(csvOut.items) = Len(CsvRows)
             /\ \A i \in DOMAIN csvOut.items : CsvRowIs(i)

\* C19 witness: a file with a blank line and two equal data rows gave two
\* invocations.
C19_Witness ==
    /\ csvOut.done /\ ~csvOut.error /\ Len(csvIn.records) = 3
    /\ Len(CsvRows) = 2 /\ CsvRows[1] = CsvRows[2] /\ Len(csvOut.items) = 2

\* C20: main returns 0 only if every pytest invocation ended with code 0,
\* and otherwise returns the code of an invocation that did not.
C20_WorstExitCode ==
    pc = "suite_done" =>
        LET ret == suite.ret[1]
            codes == {suite.rc[i] : i \in DOMAIN suite.rc}
        IN  /\ ret = 0 <=> codes = {0}
            /\ ret # 0 => ret \in codes

\* C21: the runner launches one pytest invocation per distinct browser kind,
\* and two invocations that run at the same time never have the same results
\* directory or the same report directory.
C21_IsolatedRuns ==
    pc = "suite_wait" =>
        \A i, j \in suite.pending :
            i # j => /\ suite.browsers[i] # suite.browsers[j]
                     /\ res_dir(suite.browsers[i]) # res_dir(suite.browsers[j])
                     /\ rep_dir(suite.browsers[i]) # rep_dir(suite.browsers[j])

\* the columns of the file with a sensitive-looking name
SensitiveColumns == {k \in CsvColumns : should_mask(k)}

\* the text in which str() shows the value v of the column k of a row
InClear(k, v) == Quote(k) \o <<":", " ">> \o Quote(v)

\* C22: the report never receives the value of a sensitive-looking key in
\* clear, whether the key is a parameter of the test or a column of the row
\* passed to it: it receives the masked placeholder.
C22_Masked ==
    \A i \in DOMAIN reportSink : \A k \in SensitiveColumns : \A p \in reportSink[i] :
        LET v == CsvCell(i, k)
        IN  /\ p.name = k => p.value = S_masked
            /\ v # <<>> => ~Contains(p.value, InClear(k, v))

C24_StopReturns ==
    [][(pc = "td_video" /\ vr.thr = "incall" /\ vr'.thr = "stray")
       => /\ vr'.stopped
          /\ pc' = "td_driver"
          /\ ~vr'.tmpdir /\ vr'.tmpfiles = 0
          /\ vr.tmpfiles > 0 => (vr'.encoded \/ vr'.reason)
          /\ vr.tmpfiles = 0 => (~vr'.encoded /\ vr'.reason)]_vars

C24_Witness ==
    /\ pc = "td_driver"
    /\ vr.stopped /\ vr.thr = "stray"
    /\ vr.encoded /\ vr.made
    /\ ~vr.tmpdir

\* records of the call c of logger.info in a file or buffer
RECURSIVE CountOf(_, _)
CountOf(b, c) ==
    IF b = <<>> THEN 0
    ELSE (IF b[1].item = c THEN b[1].n ELSE 0) + CountOf(Tail(b), c)

\* records the call c of logger.info logged, as its records tell
SentBy(b, c) ==
    IF \E k \in DOMAIN b : b[k].item = c /\ b[k].msg = "many" THEN capacity - 1
    ELSE IF \E k \in DOMAIN b : b[k].item = c THEN 1
    ELSE 0

\* C25: the file materialize_log_to_file made holds the records buffered
\* before the call and the records logged after it, each of them exactly
\* once: no record is in the file more often than it was logged.
C25_ExactlyOnce ==
    pc = "logger" =>
        \A p \in DOMAIN fs : \A c \in 0..(MaxLogged - 1) :
            CountOf(fs[p].recs, c) <= SentBy(fs[p].recs, c)

\* C26: every session that was created got the warm-up navigation exactly
\* once before the call phase of the first test that uses it: the session a
\* test is called with has been warmed up once, and no session twice.
C26_WarmedOnce ==
    /\ \A h \in DOMAIN drivers : drivers[h].warm <= 1
    /\ (pc = "call" /\ drvArg # 0) => drivers[drvArg].warm = 1

\* C27: when exactly one frame was captured before stop(), the encoder is
\* invoked on the two consecutively numbered frames 0 and 1, and the video
\* file is there when the encoder succeeded (no reason was recorded).
C27_SingleFrame ==
    [][(/\ pc = "td_video" /\ vr.on /\ ~vr.stopped /\ vr'.stopped
        /\ vr.tmpfiles = 1
        /\ (vr.thr # "incall" \/ vr'.frames = vr.frames))
       => /\ vr'.encoded => vr'.fed = {0, 1}
          /\ vr'.made => fs'[ap].video
          /\ ~vr'.reason => (vr'.encoded /\ vr'.made)]_vars

C27_Witness ==
    /\ pc = "td_driver"
    /\ vr.stopped /\ vr.frames = 1 /\ vr.thr = "done"
    /\ vr.fed = {0, 1}
    /\ vr.made /\ ~vr.reason
    /\ fs[ap].video

\* C28: a recorder is started only when the session its provider reads
\* exists, and its capture loop has been joined and its frames encoded before
\* quit() is called on that session and before the teardown report handles
\* the video: no capture thread of a recorder reading a session is running
\* when the session is quit or the teardown report is made.
C28_StopBeforeQuit ==
    [][/\ (~vr.on /\ vr'.on) => (drvArg # 0 /\ drivers[drvArg].alive)
       /\ \A h \in DOMAIN drivers :
            drivers'[h].quits > drivers[h].quits =>
                /\ \A th \in stray : th.h # h
                /\ (drvArg = h /\ vr.on) => (vr.stopped /\ vr.thr = "done")
       /\ (pc = "report_teardown" /\ pc' = "done" /\ vr.on) =>
            (vr.stopped /\ vr.thr = "done")]_vars

\* C29: the log file kept for a failed or skipped test holds only records
\* logged for that test, between its setup and the end of its teardown:
\* no record of a later test is written to it.
C29_OwnRecordsOnly ==
    Running =>
        \A p \in DOMAIN fs : \A k \in DOMAIN fs[p].recs :
            PathOf(fs[p].recs[k].item) = p

\* C30: whatever the environment the runner was started in, the pytest
\* process run_one(b, cfg) launched resolved its browser value to b.
C30_RunsOnItsBrowser ==
    pc \in {"suite_wait", "suite_done"} =>
        \A i \in DOMAIN suite.browsers :
            i \notin suite.pending => suite.ran[i] = suite.browsers[i]

====
